---------------------------- MODULE Spec2Model ----------------------------
(***************************************************************************)
(* The three demonstration scripts of the repository, as one state machine *)
(* whose initial state picks the script that is run:                       *)
(*   level2.py  sleep-based units, run one after another and then one      *)
(*              thread per unit;                                           *)
(*   level3.py  get_html / run_sequential / run_parallel and the __main__  *)
(*              that calls both on the same list of links;                 *)
(*   level4.py  download_files (asyncio.gather) followed by the process    *)
(*              pool that maps calculate_new_column over the downloads.    *)
(* Python values are records [type, value]; requests.get, the file system  *)
(* and the schedulers (threads, event loop, pool) are the environment.     *)
(***************************************************************************)
EXTENDS Naturals, Sequences, FiniteSets, TLC

VARIABLES
    scenario,            \* which script runs: "level2", "level3", "level4";
                         \* "repeat": run_sequential called twice (RepeatSpec)
    pc,                  \* position of the main thread in the script
    links,               \* level3: the list handed to run_sequential / run_parallel
    i,                   \* index of the for loop the main thread is in
    results,             \* the list `results` of the running function (level3, level4)
    threads,             \* level2 / level3: the list `threads`
    sequential_results,  \* level3 __main__: value returned by run_sequential
    parallel_results,    \* level3 __main__: value returned by run_parallel
    calls,               \* history: arguments of the sequential invocations, in order
    active,              \* history: unit-of-work invocations entered and not yet left
    now,                 \* level2: the clock time.time() reads, in units of the sleep
    wake,                \* level2: when the main thread's time.sleep(1) ends
    start_time,          \* level2: start_time_seq, then start_time_par
    seq_duration,        \* level2: seq_duration
    par_duration,        \* level2: par_duration
    printed,             \* level2: the thread numbers printed so far, in order
    fs,                  \* level4: what each path of test_files holds on disk
    cpu_count,           \* level4: what os.cpu_count() answers
    tasks,               \* level4: the tasks asyncio.gather runs
    successfully_downloaded,  \* level4: value returned by download_files
    processes,           \* level4: number of workers of the Pool
    jobs,                \* level4: the items pool.map hands to the workers
    successful,          \* level4: the counter of the report
    responses,           \* repeated run: what requests.get answers for each link
    returned             \* repeated run: the lists run_sequential has returned

level3vars == <<links, sequential_results, parallel_results>>
level2vars == <<now, wake, start_time, seq_duration, par_duration, printed>>
level4vars == <<fs, cpu_count, tasks, successfully_downloaded, processes, jobs,
                successful>>

repeatvars == <<responses, returned>>

vars == <<scenario, pc, i, results, threads, calls, active, level3vars,
          level2vars, level4vars, repeatvars>>

-----------------------------------------------------------------------------
(* Bounds of the model. *)

\* Longest list of links handed to the level3 runners: the lists are the
\* prefixes of test_links of at most this length (test_links has 5 entries).
MaxLinks == 2

\* Largest number of cores os.cpu_count() reports.
MaxCpu == 3

-----------------------------------------------------------------------------
(* Python values. *)

Range(s) == {s[n] : n \in 1..Len(s)}

Str(s) == [type |-> "str", value |-> s]
None == [type |-> "NoneType", value |-> ""]

\* What a call returns to its caller: a value, or an exception that propagates.
Return(v) == [raised |-> FALSE, value |-> v, exc |-> ""]
Raise(e) == [raised |-> TRUE, value |-> None, exc |-> e]

-----------------------------------------------------------------------------
(* level3.py: get_html *)

\* test_links of __main__.
test_links ==
    <<"https://www.python.org",
      "https://docs.python.org/3/",
      "https://github.com/python/cpython",
      "https://google.com",
      "https://en.wikipedia.org/wiki/Python_(programming_language)">>

\* The subclasses of requests.RequestException that requests.get raises here
\* (timeout=5 gives Timeout; an unreachable host gives ConnectionError).
RequestException == {"Timeout", "ConnectionError"}

\* requests.get(link, timeout=5): a response with a body, or an exception.
\* No raise_for_status is called, so any HTTP status comes back as a response.
RequestsGet(link) ==
    {[raised |-> FALSE, text |-> "<html>" \o link, exc |-> ""]}
        \cup {[raised |-> TRUE, text |-> "", exc |-> e] : e \in RequestException}

\* f"Ошибка при загрузке {link}: {e}" (the Russian literal is transliterated:
\* the module's strings are ASCII).
ErrorMessage(link, e) == "Oshibka pri zagruzke " \o link \o ": " \o e

\* Mutant: the except clause names only requests.Timeout.
get_html_narrow_except(link, r) ==
    IF ~r.raised THEN Return(Str(r.text))
    ELSE IF r.exc = "Timeout" THEN Return(Str(ErrorMessage(link, r.exc)))
    ELSE Raise(r.exc)

\* Mutant: the except clause returns None instead of the message.
get_html_returns_none(link, r) ==
    IF ~r.raised THEN Return(Str(r.text))
    ELSE IF r.exc \in RequestException THEN Return(None)
    ELSE Raise(r.exc)

\* Mutant: get_html has no try/except.
get_html_no_except(link, r) ==
    IF ~r.raised THEN Return(Str(r.text)) ELSE Raise(r.exc)

\* get_html(link), given the answer r of requests.get.
get_html(link, r) ==
    IF ~r.raised THEN Return(Str(r.text))
    ELSE IF r.exc \in RequestException THEN Return(Str(ErrorMessage(link, r.exc)))
    ELSE Raise(r.exc)

-----------------------------------------------------------------------------
(* Threads (threading.Thread) *)

\* state: "created" (constructed), "started" (start() called, target not yet
\* running), "running" (inside the unit of work), "finished" (target returned),
\* "died" (an exception left the target).  wake: when its time.sleep(1) ends.
\* History fields: invocations (times the unit of work was entered), failed (the
\* external call raised), ret (value the unit of work returned), slot (index of
\* `results` the worker wrote).
Thread(arg, state) ==
    [arg |-> arg, state |-> state, invocations |-> 0, failed |-> FALSE,
     ret |-> None, slot |-> 0, wake |-> 0]

\* Mutant: join() returns for any thread that was started.
Terminated_started(t) == t.state # "created"

\* Thread.is_alive() is false: what join() waits for.
Terminated(t) == t.state \in {"finished", "died"}

-----------------------------------------------------------------------------
(* level3.py: run_sequential *)

\* for link in links: result = get_html(link) -- the call is entered.
SeqCall ==
    /\ scenario = "level3"
    /\ pc = "seq_loop"
    /\ i <= Len(links)
    /\ pc' = "seq_call"
    /\ calls' = Append(calls, links[i])
    /\ active' = active + 1
    /\ UNCHANGED <<repeatvars, scenario, links, i, results, threads, sequential_results,
                   parallel_results, level2vars, level4vars>>

\* Mutant: the result is inserted at the front of the list.
SeqReturn_prepend ==
    /\ scenario = "level3"
    /\ pc = "seq_call"
    /\ \E r \in RequestsGet(links[i]) :
          LET out == get_html(links[i], r)
          IN  IF out.raised
              THEN /\ pc' = "crashed"
                   /\ UNCHANGED <<results, i>>
              ELSE /\ results' = <<out.value>> \o results
                   /\ i' = i + 1
                   /\ pc' = "seq_loop"
    /\ active' = active - 1
    /\ UNCHANGED <<repeatvars, scenario, links, threads, sequential_results,
                   parallel_results, calls, level2vars, level4vars>>

\* get_html returns; results.append(result); next iteration.
SeqReturn ==
    /\ scenario = "level3"
    /\ pc = "seq_call"
    /\ \E r \in RequestsGet(links[i]) :
          LET out == get_html(links[i], r)
          IN  IF out.raised
              THEN /\ pc' = "crashed"
                   /\ UNCHANGED <<results, i>>
              ELSE /\ results' = Append(results, out.value)
                   /\ i' = i + 1
                   /\ pc' = "seq_loop"
    /\ active' = active - 1
    /\ UNCHANGED <<repeatvars, scenario, links, threads, sequential_results,
                   parallel_results, calls, level2vars, level4vars>>

\* run_sequential refuses an empty list of links.
SeqDone_rejects_empty ==
    /\ scenario = "level3"
    /\ pc = "seq_loop"
    /\ i > Len(links)
    /\ IF links = <<>>
       THEN /\ pc' = "crashed"
            /\ UNCHANGED <<sequential_results, results, threads, i>>
       ELSE /\ sequential_results' = results
            /\ results' = <<>>
            /\ threads' = <<>>
            /\ i' = 1
            /\ pc' = "par_spawn"
    /\ UNCHANGED <<repeatvars, scenario, links, parallel_results, calls, active,
                   level2vars, level4vars>>

\* return results; __main__ keeps it and calls run_parallel, which starts with
\* threads = [] and results = [].
SeqDone ==
    /\ scenario = "level3"
    /\ pc = "seq_loop"
    /\ i > Len(links)
    /\ sequential_results' = results
    /\ results' = <<>>
    /\ threads' = <<>>
    /\ i' = 1
    /\ pc' = "par_spawn"
    /\ UNCHANGED <<repeatvars, scenario, links, parallel_results, calls, active,
                   level2vars, level4vars>>

-----------------------------------------------------------------------------
(* level3.py: run_parallel *)

\* Mutant: thread.start() is missing from the loop.
ParSpawn_no_start ==
    /\ scenario = "level3"
    /\ pc = "par_spawn"
    /\ i <= Len(links)
    /\ threads' = Append(threads, Thread(links[i], "created"))
    /\ i' = i + 1
    /\ UNCHANGED <<repeatvars, scenario, pc, links, results, sequential_results,
                   parallel_results, calls, active, level2vars, level4vars>>

\* One iteration of the spawn loop: Thread(target=worker, args=(link,)),
\* threads.append(thread), thread.start().
ParSpawn ==
    /\ scenario = "level3"
    /\ pc = "par_spawn"
    /\ i <= Len(links)
    /\ threads' = Append(threads, Thread(links[i], "started"))
    /\ i' = i + 1
    /\ UNCHANGED <<repeatvars, scenario, pc, links, results, sequential_results,
                   parallel_results, calls, active, level2vars, level4vars>>

\* The spawn loop is exhausted; the join loop begins.
ParSpawnDone ==
    /\ scenario = "level3"
    /\ pc = "par_spawn"
    /\ i > Len(links)
    /\ pc' = "par_join"
    /\ i' = 1
    /\ UNCHANGED <<repeatvars, scenario, links, results, threads, sequential_results,
                   parallel_results, calls, active, level2vars, level4vars>>

\* worker(link) begins: the thread enters get_html(link).
WorkerCall(k) ==
    /\ scenario = "level3"
    /\ k \in 1..Len(threads)
    /\ threads[k].state = "started"
    /\ threads' = [threads EXCEPT ![k].state = "running",
                                  ![k].invocations = @ + 1]
    /\ active' = active + 1
    /\ UNCHANGED <<repeatvars, scenario, pc, links, i, results, sequential_results,
                   parallel_results, calls, level2vars, level4vars>>

\* Mutant: the worker rebinds the list to its own result.
Store_replace(res, k, value) == <<value>>

\* The append is a read of the list followed by a write of the extended list,
\* and the write of a late thread wipes out the entry added in between.
Store_overwrite_last(res, k, value) ==
    IF res = <<>> THEN <<value>> ELSE [res EXCEPT ![Len(res)] = value]

\* results.append(value), executed by the worker of threads[k].
Store(res, k, value) == Append(res, value)

\* get_html returns in thread k; results.append(...); the thread ends.
WorkerReturn(k) ==
    /\ scenario = "level3"
    /\ k \in 1..Len(threads)
    /\ threads[k].state = "running"
    /\ \E r \in RequestsGet(threads[k].arg) :
          LET out == get_html(threads[k].arg, r)
          IN  IF out.raised
              THEN /\ threads' = [threads EXCEPT ![k].state = "died",
                                                 ![k].failed = TRUE]
                   /\ UNCHANGED results
              ELSE /\ results' = Store(results, k, out.value)
                   /\ threads' = [threads EXCEPT ![k].state = "finished",
                                                 ![k].failed = r.raised,
                                                 ![k].ret = out.value,
                                                 ![k].slot = Len(results) + 1]
    /\ active' = active - 1
    /\ UNCHANGED <<repeatvars, scenario, pc, links, i, sequential_results,
                   parallel_results, calls, level2vars, level4vars>>

\* for t in threads: t.join() -- returns once threads[i] has terminated.
ParJoin ==
    /\ scenario = "level3"
    /\ pc = "par_join"
    /\ i <= Len(threads)
    /\ Terminated(threads[i])
    /\ i' = i + 1
    /\ UNCHANGED <<repeatvars, scenario, pc, links, results, threads,
                   sequential_results, parallel_results, calls, active,
                   level2vars, level4vars>>

\* return results; __main__ keeps it and prints the report.
ParReturn ==
    /\ scenario = "level3"
    /\ pc = "par_join"
    /\ i > Len(threads)
    /\ parallel_results' = results
    /\ pc' = "done"
    /\ UNCHANGED <<repeatvars, scenario, links, i, results, threads, sequential_results,
                   calls, active, level2vars, level4vars>>

-----------------------------------------------------------------------------
(* level2.py *)

\* range(5): the number of units, sequential and threaded.
NumThreads == 5

\* time.sleep(1), in units of the clock.
SleepTime == 1

\* Sequential section: get_thread(i + 1) is entered and sleeps.
L2SeqCall ==
    /\ scenario = "level2"
    /\ pc = "l2_seq_loop"
    /\ i <= NumThreads
    /\ wake' = now + SleepTime
    /\ calls' = Append(calls, i)
    /\ active' = active + 1
    /\ pc' = "l2_seq_sleep"
    /\ UNCHANGED <<repeatvars, scenario, i, threads, results, level3vars, now, start_time,
                   seq_duration, par_duration, printed, level4vars>>

\* The sleep is over: print the number, return, next iteration.
L2SeqReturn ==
    /\ scenario = "level2"
    /\ pc = "l2_seq_sleep"
    /\ now >= wake
    /\ printed' = Append(printed, i)
    /\ active' = active - 1
    /\ i' = i + 1
    /\ pc' = "l2_seq_loop"
    /\ UNCHANGED <<repeatvars, scenario, threads, calls, results, level3vars, now, wake,
                   start_time, seq_duration, par_duration, level4vars>>

\* seq_duration is taken; start_time_par is taken; the five Thread objects are
\* constructed (none is started yet).
L2SeqDone ==
    /\ scenario = "level2"
    /\ pc = "l2_seq_loop"
    /\ i > NumThreads
    /\ seq_duration' = now - start_time
    /\ start_time' = now
    /\ threads' = [k \in 1..NumThreads |-> Thread(k, "created")]
    /\ i' = 1
    /\ pc' = "l2_start"
    /\ UNCHANGED <<repeatvars, scenario, calls, active, results, level3vars, now, wake,
                   par_duration, printed, level4vars>>

\* for t in threads: t.start()
L2Start ==
    /\ scenario = "level2"
    /\ pc = "l2_start"
    /\ i <= Len(threads)
    /\ threads' = [threads EXCEPT ![i].state = "started"]
    /\ i' = i + 1
    /\ UNCHANGED <<repeatvars, scenario, pc, calls, active, results, level3vars, level2vars,
                   level4vars>>

\* The start loop is exhausted; the join loop begins.
L2StartDone ==
    /\ scenario = "level2"
    /\ pc = "l2_start"
    /\ i > Len(threads)
    /\ i' = 1
    /\ pc' = "l2_join"
    /\ UNCHANGED <<repeatvars, scenario, threads, calls, active, results, level3vars, level2vars,
                   level4vars>>

\* The sleep is taken under a lock shared by the threads (a shared
\* bottleneck): a thread sleeps only once the sleeps begun before are over.
L2ThreadCall_serialized(k) ==
    /\ scenario = "level2"
    /\ k \in 1..Len(threads)
    /\ threads[k].state = "started"
    /\ LET held == {threads[m].wake : m \in {n \in 1..Len(threads) :
                                                threads[n].state = "running"}}
           free == IF held = {} THEN now
                   ELSE CHOOSE w \in held : \A v \in held : v <= w
       IN  threads' = [threads EXCEPT ![k].state = "running",
                                      ![k].invocations = @ + 1,
                                      ![k].wake = free + SleepTime]
    /\ active' = active + 1
    /\ UNCHANGED <<repeatvars, scenario, pc, i, calls, results, level3vars, level2vars,
                   level4vars>>

\* Thread k runs get_thread(k): it enters time.sleep(1).
L2ThreadCall(k) ==
    /\ scenario = "level2"
    /\ k \in 1..Len(threads)
    /\ threads[k].state = "started"
    /\ threads' = [threads EXCEPT ![k].state = "running",
                                  ![k].invocations = @ + 1,
                                  ![k].wake = now + SleepTime]
    /\ active' = active + 1
    /\ UNCHANGED <<repeatvars, scenario, pc, i, calls, results, level3vars, level2vars,
                   level4vars>>

\* Thread k wakes, prints its number and ends.
L2ThreadReturn(k) ==
    /\ scenario = "level2"
    /\ k \in 1..Len(threads)
    /\ threads[k].state = "running"
    /\ now >= threads[k].wake
    /\ threads' = [threads EXCEPT ![k].state = "finished"]
    /\ printed' = Append(printed, threads[k].arg)
    /\ active' = active - 1
    /\ UNCHANGED <<repeatvars, scenario, pc, i, calls, results, level3vars, now, wake,
                   start_time, seq_duration, par_duration, level4vars>>

\* for t in threads: t.join()
L2Join ==
    /\ scenario = "level2"
    /\ pc = "l2_join"
    /\ i <= Len(threads)
    /\ Terminated(threads[i])
    /\ i' = i + 1
    /\ UNCHANGED <<repeatvars, scenario, pc, threads, calls, active, results, level3vars,
                   level2vars, level4vars>>

\* The join loop is exhausted: par_duration is taken and both are printed.
L2JoinDone ==
    /\ scenario = "level2"
    /\ pc = "l2_join"
    /\ i > Len(threads)
    /\ par_duration' = now - start_time
    /\ pc' = "done"
    /\ UNCHANGED <<repeatvars, scenario, i, threads, calls, active, results, level3vars, now,
                   wake, start_time, seq_duration, printed, level4vars>>

\* Somebody sleeps: the main thread in the sequential section, or a thread.
Sleeping ==
    \/ pc = "l2_seq_sleep"
    \/ \E k \in 1..Len(threads) : threads[k].state = "running"

\* A step that takes no time is possible: time does not pass before it is taken
\* (the overhead of the loops and of starting a thread is negligible next to
\* the sleep).
Instantaneous ==
    \/ pc = "l2_seq_sleep" /\ now >= wake
    \/ pc \in {"l2_seq_loop", "l2_start"}
    \/ pc = "l2_join" /\ (i > Len(threads) \/ Terminated(threads[i]))
    \/ \E k \in 1..Len(threads) :
          \/ threads[k].state = "started"
          \/ threads[k].state = "running" /\ now >= threads[k].wake

\* The clock advances while every thread is blocked in a sleep or a join.
Tick ==
    /\ scenario = "level2"
    /\ Sleeping
    /\ ~Instantaneous
    /\ now' = now + 1
    /\ UNCHANGED <<repeatvars, scenario, pc, i, threads, calls, active, results, level3vars,
                   wake, start_time, seq_duration, par_duration, printed,
                   level4vars>>

-----------------------------------------------------------------------------
(* level4.py *)

\* The keys of test_files, in insertion order (paths below excel_files/).
test_files ==
    <<"excel_files/data1.xlsx", "excel_files/data2.xlsx", "excel_files/data3.xlsx">>

\* What a path holds: nothing, a zero-byte file, the sample table (Product,
\* Price, Quantity), or the table with the Total column added.
Contents == {"absent", "empty", "sample", "processed"}

\* The columns pd.read_excel finds in a file.
Columns(content) ==
    IF content = "sample" THEN {"Product", "Price", "Quantity"}
    ELSE IF content = "processed" THEN {"Product", "Price", "Quantity", "Total"}
    ELSE {}

Int(n) == [type |-> "int", n |-> n]

\* The dict calculate_new_column returns on success.
Dict(filename) == [type |-> "dict", value |-> filename, status |-> "uspeshno"]

\* Outcomes of an operation on the file system: done, or an exception.
IO == {"ok", "OSError"}

\* create_sample_excel_file(filename), given the outcome of makedirs/to_excel:
\* True, or False when the except clause caught the failure.
create_sample_excel_file(io) ==
    IF io = "ok" THEN Return(TRUE) ELSE Return(FALSE)

\* Mutant: the try/except of mock_download_file is missing and a failed
\* creation is raised.
mock_download_file_raises(filename, created) ==
    IF created.raised THEN Raise(created.exc)
    ELSE IF created.value THEN Return(Str(filename))
    ELSE Raise("OSError")

\* mock_download_file(session, url, filename) after its sleep, given what
\* create_sample_excel_file answered: the filename, or None.
mock_download_file(filename, created) ==
    IF created.raised THEN Return(None)
    ELSE IF created.value THEN Return(Str(filename))
    ELSE Return(None)

\* Every coroutine writes one and the same path, whatever its entry of
\* file_urls.
Task_same_path(filename) == [filename |-> test_files[1], state |-> "pending", ret |-> None]

\* A task of the event loop. state: "pending" (scheduled by gather), "sleeping"
\* (suspended in await asyncio.sleep(1)), "done" (returned), "failed" (raised).
Task(filename) == [filename |-> filename, state |-> "pending", ret |-> None]

\* An item of pool.map. state: "queued", "running" (a worker process is inside
\* calculate_new_column), "done" (returned), "failed" (raised).
Job(filename) == [filename |-> filename, state |-> "queued", ret |-> None]

\* Mutant: the outer try/except of calculate_new_column is missing.
calculate_new_column_raises(filename, content, rd, wr) ==
    IF content = "absent"
    THEN [out |-> Return(Str("Fajl ne sushchestvuet: '" \o filename \o "'")),
          content |-> content]
    ELSE IF content = "empty"
    THEN [out |-> Return(Str("Fajl pustoj: '" \o filename \o "'")),
          content |-> content]
    ELSE IF rd # "ok"
    THEN [out |-> Raise(rd), content |-> content]
    ELSE IF ~({"Price", "Quantity"} \subseteq Columns(content))
    THEN [out |-> Return(Str("V fajle '" \o filename
                              \o "' otsutstvuyut kolonki Price i/ili Quantity")),
          content |-> content]
    ELSE IF wr # "ok"
    THEN [out |-> Raise(wr), content |-> "empty"]
    ELSE [out |-> Return(Dict(filename)), content |-> "processed"]

\* calculate_new_column(filename), given what the path holds and the outcomes
\* rd of pd.read_excel and wr of df.to_excel: the value returned and what the
\* path holds afterwards (a failed rewrite leaves a truncated file).
\* The messages are transliterated.
calculate_new_column(filename, content, rd, wr) ==
    IF content = "absent"
    THEN [out |-> Return(Str("Fajl ne sushchestvuet: '" \o filename \o "'")),
          content |-> content]
    ELSE IF content = "empty"
    THEN [out |-> Return(Str("Fajl pustoj: '" \o filename \o "'")),
          content |-> content]
    ELSE IF rd # "ok"
    THEN [out |-> Return(Str("Oshibka pri obrabotke fajla '" \o filename
                              \o "': " \o rd)),
          content |-> content]
    ELSE IF ~({"Price", "Quantity"} \subseteq Columns(content))
    THEN [out |-> Return(Str("V fajle '" \o filename
                              \o "' otsutstvuyut kolonki Price i/ili Quantity")),
          content |-> content]
    ELSE IF wr # "ok"
    THEN [out |-> Return(Str("Oshibka pri obrabotke fajla '" \o filename
                              \o "': " \o wr)),
          content |-> "empty"]
    ELSE [out |-> Return(Dict(filename)), content |-> "processed"]

\* The Nones are not filtered out of the gathered results.
NotNone_keeps_all(s) == s

\* The elements of a sequence that are not None, in order.
RECURSIVE NotNone(_)
NotNone(s) ==
    IF s = <<>> THEN <<>>
    ELSE IF Head(s) = None THEN NotNone(Tail(s))
    ELSE <<Head(s)>> \o NotNone(Tail(s))

\* isinstance(result, dict) and result.get('status') == 'успешно'
IsSuccess(result) == result.type = "dict" /\ result.status = "uspeshno"

\* Every result is counted as a success, whatever its kind.
CountSuccess_counts_all(s) == Len(s)

RECURSIVE CountSuccess(_)
CountSuccess(s) ==
    IF s = <<>> THEN 0
    ELSE (IF IsSuccess(Head(s)) THEN 1 ELSE 0) + CountSuccess(Tail(s))

\* max is taken where min is meant.
Min_max(a, b) == IF a <= b THEN b ELSE a

Min(a, b) == IF a <= b THEN a ELSE b

\* cleanup_old_files: one iteration. An existing file is removed, unless
\* os.remove fails (the failure is caught and printed).
L4Cleanup ==
    /\ scenario = "level4"
    /\ pc = "l4_cleanup"
    /\ i <= Len(test_files)
    /\ \E io \in IO :
          fs' = IF fs[test_files[i]] # "absent" /\ io = "ok"
                THEN [fs EXCEPT ![test_files[i]] = "absent"]
                ELSE fs
    /\ i' = i + 1
    /\ UNCHANGED <<repeatvars, scenario, pc, results, threads, calls, active, level3vars,
                   level2vars, cpu_count, tasks, successfully_downloaded,
                   processes, jobs, successful>>

\* download_files is entered: the session is opened, one coroutine per entry
\* of file_urls is created and asyncio.gather schedules them all.
L4Gather ==
    /\ scenario = "level4"
    /\ pc = "l4_cleanup"
    /\ i > Len(test_files)
    /\ tasks' = [k \in 1..Len(test_files) |-> Task(test_files[k])]
    /\ pc' = "l4_gather"
    /\ UNCHANGED <<repeatvars, scenario, i, results, threads, calls, active, level3vars,
                   level2vars, fs, cpu_count, successfully_downloaded,
                   processes, jobs, successful>>

\* Task k runs up to await asyncio.sleep(1).
L4TaskStart(k) ==
    /\ scenario = "level4"
    /\ k \in 1..Len(tasks)
    /\ tasks[k].state = "pending"
    /\ tasks' = [tasks EXCEPT ![k].state = "sleeping"]
    /\ active' = active + 1
    /\ UNCHANGED <<repeatvars, scenario, pc, i, results, threads, calls, level3vars,
                   level2vars, fs, cpu_count, successfully_downloaded,
                   processes, jobs, successful>>

\* Task k resumes after its sleep: create_sample_excel_file writes the file or
\* fails, and the coroutine returns (no other task runs in between: there is
\* no await after the sleep).
L4TaskFinish(k) ==
    /\ scenario = "level4"
    /\ k \in 1..Len(tasks)
    /\ tasks[k].state = "sleeping"
    /\ \E io \in IO :
          LET out == mock_download_file(tasks[k].filename,
                                        create_sample_excel_file(io))
          IN  /\ tasks' = [tasks EXCEPT
                              ![k].state = IF out.raised THEN "failed" ELSE "done",
                              ![k].ret = out.value]
              /\ \E left \in (IF io = "ok" THEN {"sample"}
                              ELSE {fs[tasks[k].filename], "empty"}) :
                    fs' = [fs EXCEPT ![tasks[k].filename] = left]
    /\ active' = active - 1
    /\ UNCHANGED <<repeatvars, scenario, pc, i, results, threads, calls, level3vars,
                   level2vars, cpu_count, successfully_downloaded, processes,
                   jobs, successful>>

\* The await returns as soon as one task is done (asyncio.wait with
\* FIRST_COMPLETED instead of gather): the tasks that still run count as None.
L4Downloaded_first_completed ==
    /\ scenario = "level4"
    /\ pc = "l4_gather"
    /\ \E k \in 1..Len(tasks) : tasks[k].state \in {"done", "failed"}
    /\ IF \E k \in 1..Len(tasks) : tasks[k].state = "failed"
       THEN /\ pc' = "crashed"
            /\ UNCHANGED <<results, successfully_downloaded>>
       ELSE /\ results' = [k \in 1..Len(tasks) |-> tasks[k].ret]
            /\ successfully_downloaded' =
                  NotNone([k \in 1..Len(tasks) |-> tasks[k].ret])
            /\ pc' = "l4_downloaded"
    /\ UNCHANGED <<repeatvars, scenario, i, threads, calls, active, level3vars, level2vars,
                   fs, cpu_count, tasks, processes, jobs, successful>>

\* await asyncio.gather(*tasks) is over: every task has returned, and
\* download_files returns the results that are not None; or a task has raised,
\* and the exception leaves gather, download_files and main.
L4Downloaded ==
    /\ scenario = "level4"
    /\ pc = "l4_gather"
    /\ \/ \A k \in 1..Len(tasks) : tasks[k].state = "done"
       \/ \E k \in 1..Len(tasks) : tasks[k].state = "failed"
    /\ IF \E k \in 1..Len(tasks) : tasks[k].state = "failed"
       THEN /\ pc' = "crashed"
            /\ UNCHANGED <<results, successfully_downloaded>>
       ELSE /\ results' = [k \in 1..Len(tasks) |-> tasks[k].ret]
            /\ successfully_downloaded' =
                  NotNone([k \in 1..Len(tasks) |-> tasks[k].ret])
            /\ pc' = "l4_downloaded"
    /\ UNCHANGED <<repeatvars, scenario, i, threads, calls, active, level3vars, level2vars,
                   fs, cpu_count, tasks, processes, jobs, successful>>

\* if successfully_downloaded: ... else: nothing was downloaded, main ends.
L4NothingDownloaded ==
    /\ scenario = "level4"
    /\ pc = "l4_downloaded"
    /\ successfully_downloaded = <<>>
    /\ pc' = "done"
    /\ UNCHANGED <<repeatvars, scenario, i, results, threads, calls, active, level3vars,
                   level2vars, level4vars>>

\* Pool(processes=min(os.cpu_count(), len(successfully_downloaded))) and the
\* call of pool.map; min raises TypeError when os.cpu_count() is None.
L4PoolMap ==
    /\ scenario = "level4"
    /\ pc = "l4_downloaded"
    /\ successfully_downloaded # <<>>
    /\ IF cpu_count = None
       THEN /\ pc' = "crashed"
            /\ UNCHANGED <<processes, jobs>>
       ELSE /\ processes' = Min(cpu_count.n, Len(successfully_downloaded))
            /\ jobs' = [j \in 1..Len(successfully_downloaded) |->
                           Job(successfully_downloaded[j].value)]
            /\ pc' = "l4_map"
    /\ UNCHANGED <<repeatvars, scenario, i, results, threads, calls, active, level3vars,
                   level2vars, fs, cpu_count, tasks, successfully_downloaded,
                   successful>>

\* The number of worker processes inside calculate_new_column.
Busy == Cardinality({j \in 1..Len(jobs) : jobs[j].state = "running"})

\* A free worker takes the next item of the map.
L4JobStart(j) ==
    /\ scenario = "level4"
    /\ pc = "l4_map"
    /\ j \in 1..Len(jobs)
    /\ jobs[j].state = "queued"
    /\ \A h \in 1..(j - 1) : jobs[h].state # "queued"
    /\ Busy < processes
    /\ jobs' = [jobs EXCEPT ![j].state = "running"]
    /\ active' = active + 1
    /\ UNCHANGED <<repeatvars, scenario, pc, i, results, threads, calls, level3vars,
                   level2vars, fs, cpu_count, tasks, successfully_downloaded,
                   processes, successful>>

\* The worker of item j leaves calculate_new_column.
L4JobFinish(j) ==
    /\ scenario = "level4"
    /\ pc = "l4_map"
    /\ j \in 1..Len(jobs)
    /\ jobs[j].state = "running"
    /\ \E rd \in IO, wr \in IO :
          LET c == calculate_new_column(jobs[j].filename, fs[jobs[j].filename],
                                        rd, wr)
          IN  /\ jobs' = [jobs EXCEPT
                             ![j].state = IF c.out.raised THEN "failed" ELSE "done",
                             ![j].ret = c.out.value]
              /\ fs' = [fs EXCEPT ![jobs[j].filename] = c.content]
    /\ active' = active - 1
    /\ UNCHANGED <<repeatvars, scenario, pc, i, results, threads, calls, level3vars,
                   level2vars, cpu_count, tasks, successfully_downloaded,
                   processes, successful>>

\* pool.map returns the results in the order of its argument once every item
\* is done (it re-raises when an item raised); the pool is closed, the report
\* counts the successes and verify_processed_files reads the files back.
L4Report ==
    /\ scenario = "level4"
    /\ pc = "l4_map"
    /\ \A j \in 1..Len(jobs) : jobs[j].state \in {"done", "failed"}
    /\ IF \E j \in 1..Len(jobs) : jobs[j].state = "failed"
       THEN /\ pc' = "crashed"
            /\ UNCHANGED <<results, successful>>
       ELSE /\ results' = [j \in 1..Len(jobs) |-> jobs[j].ret]
            /\ successful' = CountSuccess([j \in 1..Len(jobs) |-> jobs[j].ret])
            /\ pc' = "done"
    /\ UNCHANGED <<repeatvars, scenario, i, threads, calls, active, level3vars, level2vars,
                   fs, cpu_count, tasks, successfully_downloaded, processes,
                   jobs>>

-----------------------------------------------------------------------------

Init ==
    /\ scenario \in {"level2", "level3", "level4"}
    /\ pc = CASE scenario = "level2" -> "l2_seq_loop"
              [] scenario = "level3" -> "seq_loop"
              [] scenario = "level4" -> "l4_cleanup"
    /\ links \in (IF scenario = "level3"
                  THEN {SubSeq(test_links, 1, n) : n \in 0..MaxLinks}
                  ELSE {<<>>})
    /\ i = 1
    /\ results = <<>>
    /\ threads = <<>>
    /\ sequential_results = <<>>
    /\ parallel_results = <<>>
    /\ calls = <<>>
    /\ active = 0
    /\ now = 0
    /\ wake = 0
    /\ start_time = 0
    /\ seq_duration = 0
    /\ par_duration = 0
    /\ printed = <<>>
    /\ fs \in (IF scenario = "level4"
               THEN [Range(test_files) -> {"absent", "processed"}]
               ELSE {[f \in Range(test_files) |-> "absent"]})
    /\ cpu_count \in (IF scenario = "level4"
                      THEN {None} \cup {Int(n) : n \in 1..MaxCpu}
                      ELSE {None})
    /\ tasks = <<>>
    /\ successfully_downloaded = <<>>
    /\ processes = 0
    /\ jobs = <<>>
    /\ successful = 0
    /\ responses = <<>>
    /\ returned = <<>>

Next ==
    \/ SeqCall
    \/ SeqReturn
    \/ SeqDone
    \/ ParSpawn
    \/ ParSpawnDone
    \/ \E k \in 1..MaxLinks : WorkerCall(k)
    \/ \E k \in 1..MaxLinks : WorkerReturn(k)
    \/ ParJoin
    \/ ParReturn
    \/ L2SeqCall
    \/ L2SeqReturn
    \/ L2SeqDone
    \/ L2Start
    \/ L2StartDone
    \/ \E k \in 1..NumThreads : L2ThreadCall(k)
    \/ \E k \in 1..NumThreads : L2ThreadReturn(k)
    \/ L2Join
    \/ L2JoinDone
    \/ Tick
    \/ L4Cleanup
    \/ L4Gather
    \/ \E k \in 1..Len(test_files) : L4TaskStart(k)
    \/ \E k \in 1..Len(test_files) : L4TaskFinish(k)
    \/ L4Downloaded
    \/ L4NothingDownloaded
    \/ L4PoolMap
    \/ \E j \in 1..Len(test_files) : L4JobStart(j)
    \/ \E j \in 1..Len(test_files) : L4JobFinish(j)
    \/ L4Report

Spec == Init /\ [][Next]_vars

\* The scheduling the scripts run under: as long as some step is possible, a
\* step is taken (a started thread or task gets to run, requests.get answers
\* within its timeout, a sleep ends, a join on a terminated thread returns).
FairSpec == Spec /\ WF_vars(Next)

-----------------------------------------------------------------------------
(* run_sequential called twice on one list of links, with a unit of work that *)
(* is a function of its argument: requests.get answers a link the same way    *)
(* every time it is asked.                                                    *)

\* The links the repeated run draws its lists from.
RepeatLinks == Range(SubSeq(test_links, 1, MaxLinks))

\* The lists of links of the repeated run: every list over RepeatLinks of at
\* most MaxLinks entries (a link may occur more than once).
RepeatInputs == UNION {[1..n -> RepeatLinks] : n \in 0..MaxLinks}

\* The deterministic networks: one answer of requests.get per link.
Networks ==
    {f \in [RepeatLinks -> UNION {RequestsGet(l) : l \in RepeatLinks}] :
        \A l \in RepeatLinks : f[l] \in RequestsGet(l)}

\* Mutant: `results` is one list shared by the calls (a mutable default
\* argument or a module-level list) instead of a fresh list per call.
RepeatEnter_shared_list ==
    /\ scenario = "repeat"
    /\ pc = "repeat_enter"
    /\ i' = 1
    /\ pc' = "repeat_loop"
    /\ UNCHANGED <<scenario, results, threads, calls, active, level3vars,
                   level2vars, level4vars, repeatvars>>

\* run_sequential is entered: results = [] and the for loop begins.
RepeatEnter ==
    /\ scenario = "repeat"
    /\ pc = "repeat_enter"
    /\ results' = <<>>
    /\ i' = 1
    /\ pc' = "repeat_loop"
    /\ UNCHANGED <<scenario, threads, calls, active, level3vars, level2vars,
                   level4vars, repeatvars>>

\* for link in links: get_html(link) is called.
RepeatCall ==
    /\ scenario = "repeat"
    /\ pc = "repeat_loop"
    /\ i <= Len(links)
    /\ pc' = "repeat_call"
    /\ calls' = Append(calls, links[i])
    /\ active' = active + 1
    /\ UNCHANGED <<scenario, i, results, threads, level3vars, level2vars,
                   level4vars, repeatvars>>

\* get_html returns what it makes of the network's answer for the link;
\* results.append(result); next iteration.
RepeatReturn ==
    /\ scenario = "repeat"
    /\ pc = "repeat_call"
    /\ LET out == get_html(links[i], responses[links[i]])
       IN  IF out.raised
           THEN /\ pc' = "crashed"
                /\ UNCHANGED <<results, i>>
           ELSE /\ results' = Append(results, out.value)
                /\ i' = i + 1
                /\ pc' = "repeat_loop"
    /\ active' = active - 1
    /\ UNCHANGED <<scenario, threads, calls, level3vars, level2vars,
                   level4vars, repeatvars>>

\* return results: the caller keeps the list, and calls again after the
\* first run.
RepeatExit ==
    /\ scenario = "repeat"
    /\ pc = "repeat_loop"
    /\ i > Len(links)
    /\ returned' = Append(returned, results)
    /\ pc' = IF Len(returned) = 0 THEN "repeat_enter" ELSE "done"
    /\ UNCHANGED <<scenario, i, results, threads, calls, active, level3vars,
                   level2vars, level4vars, responses>>

RepeatInit ==
    /\ scenario = "repeat"
    /\ pc = "repeat_enter"
    /\ links \in RepeatInputs
    /\ responses \in Networks
    /\ returned = <<>>
    /\ i = 1
    /\ results = <<>>
    /\ threads = <<>>
    /\ sequential_results = <<>>
    /\ parallel_results = <<>>
    /\ calls = <<>>
    /\ active = 0
    /\ now = 0
    /\ wake = 0
    /\ start_time = 0
    /\ seq_duration = 0
    /\ par_duration = 0
    /\ printed = <<>>
    /\ fs = [f \in Range(test_files) |-> "absent"]
    /\ cpu_count = None
    /\ tasks = <<>>
    /\ successfully_downloaded = <<>>
    /\ processes = 0
    /\ jobs = <<>>
    /\ successful = 0

RepeatNext ==
    \/ RepeatEnter
    \/ RepeatCall
    \/ RepeatReturn
    \/ RepeatExit

RepeatSpec == RepeatInit /\ [][RepeatNext]_vars

-----------------------------------------------------------------------------
(* The claims *)

\* A run of run_sequential has returned to __main__ (level3).
SequentialReturned == scenario = "level3" /\ pc \in {"par_spawn", "par_join", "done"}

\* run_parallel has returned to __main__ (level3).
ParallelReturned == scenario = "level3" /\ pc = "done"

\* download_files has returned to main (level4).
DownloadReturned == scenario = "level4" /\ pc \in {"l4_downloaded", "l4_map", "done"}

\* The values get_html(link) can return.
Outcomes(link) ==
    {get_html(link, r).value : r \in {q \in RequestsGet(link) : ~get_html(link, q).raised}}

\* C1: when run_parallel returns, results[k] is the outcome of
\* get_html(links[k]) for every index k, whatever the completion order.
C1_ResultsInInputOrder ==
    ParallelReturned =>
        /\ Len(parallel_results) = Len(links)
        /\ Len(threads) = Len(links)
        /\ \A k \in 1..Len(links) : parallel_results[k] = threads[k].ret

\* C2: the list a runner returns has exactly one entry per input, in both
\* modes, whatever the outcome of each unit of work.
C2_OneEntryPerInput ==
    /\ SequentialReturned => Len(sequential_results) = Len(links)
    /\ ParallelReturned => Len(parallel_results) = Len(links)

C2_Witness ==
    /\ ParallelReturned
    /\ Len(links) = MaxLinks
    /\ Len(parallel_results) = MaxLinks
    /\ \E k \in 1..Len(threads) : threads[k].failed
    /\ \E k \in 1..Len(threads) : ~threads[k].failed

\* C3: a failed unit of work does not abort the runner: every input's unit is
\* still started, runs to completion and has its outcome delivered, in
\* run_sequential, run_parallel and download_files.
C3_PartialFailureIsolation ==
    /\ scenario = "level3" => pc # "crashed"
    /\ SequentialReturned =>
          /\ calls = links
          /\ Len(sequential_results) = Len(links)
          /\ \A k \in 1..Len(links) : sequential_results[k] \in Outcomes(links[k])
    /\ ParallelReturned =>
          /\ Len(threads) = Len(links)
          /\ \A k \in 1..Len(threads) :
                /\ threads[k].state = "finished"
                /\ threads[k].invocations = 1
                /\ \E n \in 1..Len(parallel_results) :
                      parallel_results[n] = threads[k].ret
    /\ DownloadReturned =>
          /\ Len(tasks) = Len(test_files)
          /\ \A k \in 1..Len(tasks) :
                /\ tasks[k].state = "done"
                /\ tasks[k].ret # None => tasks[k].ret \in Range(successfully_downloaded)

C3_Witness ==
    /\ ParallelReturned
    /\ Len(threads) >= 2
    /\ threads[1].failed
    /\ \A k \in 2..Len(threads) :
          /\ ~threads[k].failed
          /\ \E n \in 1..Len(parallel_results) : parallel_results[n] = threads[k].ret

\* The entry of `results` written by the worker of threads[k].
Entry(k) == results[threads[k].slot]

C5_Barrier ==
    /\ ParallelReturned =>
          \A k \in 1..Len(threads) : threads[k].state \in {"finished", "died"}
    /\ (scenario = "level2" /\ pc = "done") =>
          \A k \in 1..Len(threads) : threads[k].state \in {"finished", "died"}
    /\ (scenario = "level4" /\ pc \notin {"l4_cleanup", "l4_gather"}) =>
          \A k \in 1..Len(tasks) : tasks[k].state \in {"done", "failed"}
    /\ pc = "done" => active = 0

C5_Witness ==
    /\ scenario = "level2"
    /\ pc = "done"
    /\ Len(threads) = NumThreads
    /\ \A k \in 1..Len(threads) : threads[k].state = "finished"
    /\ par_duration = now - start_time

\* The first n natural numbers, in order.
Iota(n) == [k \in 1..n |-> k]

\* C6: in sequential mode the unit of work is invoked once per input, in list
\* order, one invocation at a time, and the results accumulate in that order.
C6_SequentialInOrder ==
    /\ (scenario = "level3" /\ pc \in {"seq_loop", "seq_call"}) =>
          /\ active = (IF pc = "seq_call" THEN 1 ELSE 0)
          /\ Len(calls) = (IF pc = "seq_call" THEN i ELSE i - 1)
          /\ calls = SubSeq(links, 1, Len(calls))
          /\ Len(results) = i - 1
          /\ \A k \in 1..Len(results) : results[k] \in Outcomes(links[k])
    /\ SequentialReturned =>
          /\ calls = links
          /\ Len(sequential_results) = Len(links)
          /\ \A k \in 1..Len(links) : sequential_results[k] \in Outcomes(links[k])
    /\ (scenario = "level2" /\ pc \in {"l2_seq_loop", "l2_seq_sleep"}) =>
          /\ active = (IF pc = "l2_seq_sleep" THEN 1 ELSE 0)
          /\ calls = Iota(IF pc = "l2_seq_sleep" THEN i ELSE i - 1)
          /\ printed = Iota(i - 1)
    /\ (scenario = "level2" /\ pc \notin {"l2_seq_loop", "l2_seq_sleep"}) =>
          /\ calls = Iota(NumThreads)
          /\ SubSeq(printed, 1, NumThreads) = Iota(NumThreads)

C6_Witness ==
    /\ scenario = "level3"
    /\ pc = "seq_call"
    /\ i = 2
    /\ active = 1
    /\ calls = <<links[1], links[2]>>
    /\ results = <<Str(ErrorMessage(links[1], "Timeout"))>>

\* C7: in concurrent mode one thread is created per input, every thread is
\* started before the runner waits for any of them, and each input's unit of
\* work is invoked exactly once.
C7_OneStartedThreadPerInput ==
    /\ (scenario = "level3" /\ pc \in {"par_join", "done"}) =>
          /\ Len(threads) = Len(links)
          /\ \A k \in 1..Len(threads) :
                /\ threads[k].arg = links[k]
                /\ threads[k].state # "created"
    /\ (scenario = "level2" /\ pc \in {"l2_join", "done"}) =>
          /\ Len(threads) = NumThreads
          /\ \A k \in 1..Len(threads) :
                /\ threads[k].arg = k
                /\ threads[k].state # "created"
    /\ \A k \in 1..Len(threads) :
          /\ threads[k].invocations <= 1
          /\ threads[k].state \in {"running", "finished", "died"}
                => threads[k].invocations = 1
    /\ (scenario \in {"level2", "level3"} /\ pc = "done") =>
          \A k \in 1..Len(threads) : threads[k].invocations = 1

C7_Witness ==
    /\ scenario = "level3"
    /\ pc = "par_join"
    /\ i = 1
    /\ Len(threads) = MaxLinks
    /\ \A k \in 1..Len(threads) : threads[k].state = "started"

\* C8: a failure inside a unit of work (get_html, mock_download_file,
\* calculate_new_column) becomes that unit's result value: no thread, task or
\* pool item ends with an exception and none reaches the caller of the runner
\* (main of level4 stops only where min() rejects os.cpu_count() = None).
C8_FailuresBecomeResults ==
    /\ scenario = "level3" => pc # "crashed"
    /\ \A k \in 1..Len(threads) : threads[k].state # "died"
    /\ \A k \in 1..Len(threads) :
          (scenario = "level3" /\ threads[k].state = "finished")
              => Entry(k) = threads[k].ret
    /\ \A k \in 1..Len(tasks) : tasks[k].state # "failed"
    /\ \A j \in 1..Len(jobs) : jobs[j].state # "failed"
    /\ (scenario = "level4" /\ pc = "crashed") =>
          /\ cpu_count = None
          /\ jobs = <<>>
          /\ \A k \in 1..Len(tasks) : tasks[k].state = "done"

C8_Witness ==
    /\ scenario = "level4"
    /\ pc = "done"
    /\ Len(jobs) = 3
    /\ results[1] = Dict(jobs[1].filename)
    /\ results[2].type = "str"
    /\ \E k \in 1..Len(tasks) : tasks[k].ret # None

\* The runner of the running script has returned.
Returned == ParallelReturned \/ (scenario = "level2" /\ pc = "done") \/ DownloadReturned

\* C9: provided every unit of work eventually finishes, the runner eventually
\* returns, for every input list and also when units fail.
C9_RunnerReturns == <>Returned

C9_Witness ==
    /\ ParallelReturned
    /\ Len(threads) = MaxLinks
    /\ \A k \in 1..Len(threads) : threads[k].failed /\ threads[k].state = "finished"

\* C10: each concurrent unit writes exactly one slot of the result list, the
\* one at its own input index.
C10_OwnSlotOnly ==
    scenario = "level3" =>
        \A k \in 1..Len(threads) :
            threads[k].state = "finished" => threads[k].slot = k

\* The download tasks that have not returned yet (level4).
Downloading == {k \in 1..Len(tasks) : tasks[k].state \in {"pending", "sleeping"}}

\* The items of pool.map a worker process is working on (level4).
Processing == {j \in 1..Len(jobs) : jobs[j].state = "running"}

C12_EmptyInput ==
    (scenario = "level3" /\ links = <<>>) =>
        /\ pc # "crashed"
        /\ results = <<>>
        /\ sequential_results = <<>>
        /\ parallel_results = <<>>
        /\ threads = <<>>
        /\ calls = <<>>
        /\ active = 0

C12_Witness ==
    /\ ParallelReturned
    /\ links = <<>>
    /\ sequential_results = <<>>
    /\ parallel_results = <<>>

\* C14: with five units of work of latency 1 each and no shared bottleneck,
\* the concurrent run takes the largest latency, 1 time unit, and the
\* sequential run takes the sum of the latencies, 5 time units (the time of
\* the steps other than the sleep is taken as negligible).
C14_Speedup ==
    (scenario = "level2" /\ pc = "done") =>
        /\ seq_duration = 5
        /\ par_duration = 1
        /\ seq_duration = NumThreads * par_duration

C14_Witness ==
    /\ scenario = "level2"
    /\ pc = "done"
    /\ Len(printed) = 2 * NumThreads
    /\ seq_duration = 5
    /\ par_duration = 1
    /\ now = 6

\* The files whose download task has returned its filename (level4).
Downloaded ==
    {tasks[k].filename : k \in {m \in 1..Len(tasks) :
                                   tasks[m].state = "done" /\ tasks[m].ret # None}}

\* C15: the stages of the spreadsheet scenario follow one another: the items
\* of pool.map exist only once the cleanup is over and every download task has
\* completed, each item is a file whose download succeeded, and no file is
\* processed while a download is still in flight.
C15_PipelineOrder ==
    (scenario = "level4" /\ jobs # <<>>) =>
        /\ pc \in {"l4_map", "done", "crashed"}
        /\ i > Len(test_files)
        /\ Len(tasks) = Len(test_files)
        /\ Downloading = {}
        /\ \A k \in 1..Len(tasks) : tasks[k].state = "done"
        /\ \A j \in 1..Len(jobs) : jobs[j].filename \in Downloaded

C15_Witness ==
    /\ scenario = "level4"
    /\ pc = "l4_map"
    /\ Processing # {}
    /\ Len(jobs) = 2
    /\ Cardinality(Downloaded) = 2
    /\ \E k \in 1..Len(tasks) : tasks[k].ret = None

\* The filenames download_files has returned.
DownloadedNames ==
    [n \in 1..Len(successfully_downloaded) |-> successfully_downloaded[n].value]

\* C16: download_files returns the input filenames whose mock_download_file
\* succeeded (the sample file is on disk), in the order of file_urls, without
\* a None: never more names than inputs, and no name twice.
C16_DownloadedSubsequence ==
    DownloadReturned =>
        /\ \A n \in 1..Len(successfully_downloaded) :
              successfully_downloaded[n] # None
        /\ Len(successfully_downloaded) <= Len(test_files)
        /\ \A n \in 1..Len(DownloadedNames) : \A m \in 1..Len(DownloadedNames) :
              DownloadedNames[n] = DownloadedNames[m] => n = m
        /\ pc = "l4_downloaded" =>
              LET Succeeded(f) == fs[f] = "sample"
              IN  DownloadedNames = SelectSeq(test_files, Succeeded)

C16_Witness ==
    /\ scenario = "level4"
    /\ pc = "l4_downloaded"
    /\ DownloadedNames = <<test_files[1], test_files[3]>>
    /\ results[2] = None

\* main has printed its report (level4).
Reported == scenario = "level4" /\ pc = "done" /\ jobs # <<>>

\* C17: the processing stage yields one result per downloaded file, and the
\* success counter of the report is the number of results that are a dict of
\* status 'uspeshno' (the files left processed on disk):
\* successful <= len(results) = len(successfully_downloaded) <= len(test_files).
C17_ReportCounts ==
    Reported =>
        /\ Len(results) = Len(successfully_downloaded)
        /\ Len(successfully_downloaded) <= Len(test_files)
        /\ successful <= Len(results)
        /\ successful = Cardinality({j \in 1..Len(results) :
                            /\ results[j].type = "dict"
                            /\ results[j].status = "uspeshno"})
        /\ successful = Cardinality({j \in 1..Len(jobs) :
                            fs[jobs[j].filename] = "processed"})
        /\ \A j \in 1..Len(results) :
              results[j].type = "dict" =>
                 results[j].value = successfully_downloaded[j].value

C17_Witness ==
    /\ Reported
    /\ Len(results) = 3
    /\ successful = 2

\* p is a rearrangement of s: a one-to-one correspondence of their indices
\* maps equal entries to each other.
IsPermutation(p, s) ==
    /\ Len(p) = Len(s)
    /\ \E f \in [1..Len(s) -> 1..Len(s)] :
          /\ \A a \in 1..Len(s) : \A b \in 1..Len(s) : f[a] = f[b] => a = b
          /\ \A a \in 1..Len(s) : p[f[a]] = s[a]

\* C18: whatever the interleaving of the threads, the list run_parallel returns
\* is a permutation of the list run_sequential returns for the same links and
\* the same outcome per link (the outcomes in the order of the links): no
\* result is lost, duplicated or overwritten.
C18_PermutationOfSequential ==
    ParallelReturned =>
        /\ Len(parallel_results) = Len(links)
        /\ Len(threads) = Len(links)
        /\ IsPermutation(parallel_results,
                         [k \in 1..Len(threads) |-> threads[k].ret])
        /\ \A k \in 1..Len(threads) : \A m \in 1..Len(threads) :
              threads[k].slot = threads[m].slot => k = m
        /\ \A k \in 1..Len(threads) :
              /\ threads[k].slot \in 1..Len(parallel_results)
              /\ parallel_results[threads[k].slot] = threads[k].ret

C18_Witness ==
    /\ ParallelReturned
    /\ Len(threads) = MaxLinks
    /\ threads[1].slot = MaxLinks
    /\ threads[1].ret # threads[MaxLinks].ret
    /\ parallel_results[MaxLinks] = threads[1].ret

\* The process pool has been created (level4).
PoolCreated == scenario = "level4" /\ (processes # 0 \/ jobs # <<>>)

\* C19: the process pool is created only when at least one file was
\* downloaded, with at least 1 and at most as many workers as downloaded
\* files, and never more workers busy than that; when no download succeeded,
\* there is no pool, no processing and no report, and main ends normally.
C19_PoolOnlyWhenDownloaded ==
    /\ PoolCreated =>
          /\ DownloadReturned
          /\ successfully_downloaded # <<>>
          /\ processes >= 1
          /\ processes <= Len(successfully_downloaded)
          /\ Busy <= processes
    /\ (DownloadReturned /\ successfully_downloaded = <<>>) =>
          /\ pc \in {"l4_downloaded", "done"}
          /\ pc = "l4_downloaded" => ENABLED L4NothingDownloaded
          /\ processes = 0
          /\ jobs = <<>>
          /\ successful = 0
    /\ (scenario = "level4" /\ pc = "crashed") => successfully_downloaded # <<>>

C19_Witness ==
    /\ PoolCreated
    /\ cpu_count = Int(MaxCpu)
    /\ Len(successfully_downloaded) = 2
    /\ processes = 2
    /\ Busy = 2

\* main has ended normally without having downloaded anything.
C19_WitnessNothing ==
    /\ scenario = "level4"
    /\ pc = "done"
    /\ successfully_downloaded = <<>>
    /\ Len(tasks) = Len(test_files)

\* What get_html returns for each link of the list under the network n.
Expected(n) == [k \in 1..Len(links) |-> get_html(links[k], n[links[k]]).value]

\* C13: run_sequential called twice on the same list of links, with a unit
\* of work that answers a link the same way each time, returns the same
\* sequence of results both times (the outcome per link, in input order).
C13_Idempotent ==
    (scenario = "repeat" /\ Len(returned) = 2) =>
        /\ returned[1] = returned[2]
        /\ returned[2] = Expected(responses)

C13_Witness ==
    /\ scenario = "repeat"
    /\ pc = "done"
    /\ Len(links) = MaxLinks
    /\ Len(returned) = 2
    /\ returned[1] = returned[2]
    /\ Len(returned[2]) = MaxLinks
    /\ \E k \in 1..Len(links) : responses[links[k]].raised
    /\ \E k \in 1..Len(links) : ~responses[links[k]].raised

=============================================================================
